---- MODULE Spec2Model ----
(***************************************************************************)
(* Model of the Dropbox tool set of src/main.py.                           *)
(*                                                                         *)
(* One tool invocation is modelled per behaviour: a tool is called with    *)
(* arguments drawn from small sets, runs through its remote calls (each    *)
(* of which the remote API may answer or fail with an ApiError) and ends   *)
(* by returning a value or by raising an exception.                        *)
(*                                                                         *)
(* Strings that the code takes apart (paths, names) are sequences of       *)
(* atoms; an atom is one character or one slash-free piece such as ".txt". *)
(* Strings that the code passes through untouched are plain TLA+ strings.  *)
(***************************************************************************)
EXTENDS Integers, Sequences, FiniteSets, TLC

VARIABLES
    tool,       \* name of the tool being invoked ("none" while idle)
    args,       \* the invocation's arguments
    pc,         \* position inside the tool's body
    loc,        \* the tool's local variables
    calls,      \* remote calls issued on dbx so far, in order
    io,         \* URL fetches (requests.get) and local file accesses (open)
    result,     \* how the invocation ended: returned value or raised exception
    remoteFile  \* the remote file at the append target: File(bytes) or Absent

vars == <<tool, args, pc, loc, calls, io, result, remoteFile>>

(***************************************************************************)
(* Bounds of the model.                                                    *)
(***************************************************************************)
MaxPathLen == 3     \* atoms in a path argument
MaxNameLen == 2     \* characters in a rename target
MaxFiles == 2       \* entries in each of file_urls / file_paths
MaxNames == 3       \* entries in filenames
MaxTime == 2        \* timestamps are 0..MaxTime
MaxBytes == 2       \* bytes in the pre-existing remote file
MaxContent == 1     \* characters in a content argument
MaxLeafLen == 2     \* atoms in a file or folder name
MaxMatches == 2     \* matches in a search answer

None == "None"      \* Python's None

\* the state of a remote path: no file, or a file with its bytes
Absent == [exists |-> FALSE, content |-> <<>>]
File(bytes) == [exists |-> TRUE, content |-> bytes]

RECURSIVE SeqsUpTo(_, _)
SeqsUpTo(S, n) ==
    IF n = 0 THEN {<<>>}
    ELSE LET shorter == SeqsUpTo(S, n - 1)
         IN  shorter \cup {Append(s, x) : s \in shorter, x \in S}

(***************************************************************************)
(* Python string primitives used by the tools, on sequences of atoms.      *)
(***************************************************************************)
Slash == "/"

\* str.rstrip("/"): drop every trailing slash
RECURSIVE RStripSlash(_)
RStripSlash(s) ==
    IF Len(s) > 0 /\ s[Len(s)] = Slash
    THEN RStripSlash(SubSeq(s, 1, Len(s) - 1))
    ELSE s

\* str.split("/"): the pieces between slashes (always at least one piece)
RECURSIVE SplitSlash(_)
SplitSlash(s) ==
    IF \A i \in 1..Len(s) : s[i] # Slash THEN <<s>>
    ELSE LET i == CHOOSE k \in 1..Len(s) :
                      s[k] = Slash /\ \A j \in 1..(k - 1) : s[j] # Slash
         IN  <<SubSeq(s, 1, i - 1)>> \o SplitSlash(SubSeq(s, i + 1, Len(s)))

\* "/".join(parts)
RECURSIVE JoinSlash(_)
JoinSlash(parts) ==
    IF Len(parts) = 0 THEN <<>>
    ELSE IF Len(parts) = 1 THEN parts[1]
    ELSE parts[1] \o <<Slash>> \o JoinSlash(Tail(parts))

\* parts[-1]
LastOf(parts) == parts[Len(parts)]

\* s.endswith(suffix)
EndsWith(s, suffix) ==
    /\ Len(s) >= Len(suffix)
    /\ SubSeq(s, Len(s) - Len(suffix) + 1, Len(s)) = suffix

(***************************************************************************)
(* Outcomes of an invocation.                                              *)
(***************************************************************************)
NoResult == [kind |-> "none"]
Return(shape, value) == [kind |-> "return", shape |-> shape, value |-> value]
Raise(exc, msg) == [kind |-> "raise", exc |-> exc, msg |-> msg]

\* str(err) of a dropbox.exceptions.ApiError, and of any other exception
ApiErrorMsg == "ApiError"
OtherErrorMsg == "Exception"

\* how a remote call can end: answered, failed by the remote API
\* (dropbox.exceptions.ApiError), or failed with any other exception
RemoteOutcomes == {"ok", "ApiError", "Exception"}

Returned == result.kind = "return"
Raised == result.kind = "raise"
Done == pc = "done"

Init ==
    /\ tool = "none"
    /\ args = <<>>
    /\ pc = "idle"
    /\ loc = <<>>
    /\ calls = <<>>
    /\ io = <<>>
    /\ result = NoResult
    /\ remoteFile = Absent

\* a tool is entered with its arguments bound
Enter(t, a, l, p) ==
    /\ pc = "idle"
    /\ tool' = t
    /\ args' = a
    /\ loc' = l
    /\ pc' = p
    /\ UNCHANGED <<calls, io, result, remoteFile>>

\* the invocation ends with outcome r
Finish(r) ==
    /\ pc' = "done"
    /\ result' = r

(***************************************************************************)
(* Path building and text encoding shared by create_text_file,             *)
(* create_folder and create_or_append_to_text_file.                        *)
(*                                                                         *)
(* A text is a sequence of the characters "a" (an ASCII character),        *)
(* "E_ACUTE" (a two-byte character) and "LF" (the newline); its UTF-8      *)
(* bytes are written as hex pairs.                                         *)
(***************************************************************************)
TxtSuffix == <<".txt">>
LeafAtoms == {"a", ".txt"}
LeafArgs == SeqsUpTo(LeafAtoms, MaxLeafLen)
ParentArgs == {<<>>, <<Slash>>, <<"a">>, <<Slash, "a">>, <<Slash, "a", Slash>>}
ContentChars == {"a", "E_ACUTE"}
ContentArgs == SeqsUpTo(ContentChars, MaxContent)
Bytes == {"61", "0A", "C3", "A9"}
RemoteContents == SeqsUpTo(Bytes, MaxBytes)

\* if not file_name.endswith(".txt"): file_name += ".txt"
EnsureTxt(file_name) ==
    IF EndsWith(file_name, TxtSuffix) THEN file_name ELSE file_name \o TxtSuffix

\* lines 41-44, 73-76 and 116-119: the folder gets a trailing slash when it
\* is non-empty and lacks one; the root is used when it is empty
FullPath(folder_path, name) ==
    LET folder == IF folder_path # <<>> /\ ~EndsWith(folder_path, <<Slash>>)
                  THEN folder_path \o <<Slash>>
                  ELSE folder_path
    IN  IF folder # <<>> THEN folder \o name ELSE <<Slash>> \o name

\* str.encode("utf-8")
RECURSIVE Utf8Encode(_)
Utf8Encode(text) ==
    IF text = <<>> THEN <<>>
    ELSE (CASE Head(text) = "a" -> <<"61">>
            [] Head(text) = "LF" -> <<"0A">>
            [] Head(text) = "E_ACUTE" -> <<"C3", "A9">>)
         \o Utf8Encode(Tail(text))

\* bytes.decode("utf-8"): the text, or not ok for bytes that are no UTF-8
RECURSIVE Utf8Decode(_)
Utf8Decode(bytes) ==
    IF bytes = <<>> THEN [ok |-> TRUE, text |-> <<>>]
    ELSE IF Head(bytes) \in {"61", "0A"}
    THEN LET rest == Utf8Decode(Tail(bytes))
             ch == IF Head(bytes) = "61" THEN "a" ELSE "LF"
         IN  [ok |-> rest.ok, text |-> <<ch>> \o rest.text]
    ELSE IF Head(bytes) = "C3" /\ Len(bytes) >= 2 /\ bytes[2] = "A9"
    THEN LET rest == Utf8Decode(SubSeq(bytes, 3, Len(bytes)))
         IN  [ok |-> rest.ok, text |-> <<"E_ACUTE">> \o rest.text]
    ELSE [ok |-> FALSE, text |-> <<>>]

(***************************************************************************)
(* move_file_folder                                                        *)
(***************************************************************************)
PathAtoms == {Slash, "a", "b"}
PathArgs == SeqsUpTo(PathAtoms, MaxPathLen)

\* move_file_folder with the destination folder's trailing slashes kept
MoveDestinationNoStrip(path_from, path_to) ==
    LET file_name == LastOf(SplitSlash(RStripSlash(path_from)))
    IN  path_to \o <<Slash>> \o file_name

\* destination computed by move_file_folder
MoveDestination(path_from, path_to) ==
    LET file_name == LastOf(SplitSlash(RStripSlash(path_from)))
    IN  RStripSlash(path_to) \o <<Slash>> \o file_name

MoveCall(from_path, to_path, autorename, allow_ownership_transfer) ==
    [op |-> "files_move_v2", from_path |-> from_path, to_path |-> to_path,
     autorename |-> autorename,
     allow_ownership_transfer |-> allow_ownership_transfer]

move_file_folder_call ==
    /\ pc = "idle"
    /\ \E path_from \in PathArgs, path_to \in PathArgs,
       autorename \in BOOLEAN, allow_ownership_transfer \in BOOLEAN :
        Enter("move_file_folder",
              [path_from |-> path_from, path_to |-> path_to,
               autorename |-> autorename,
               allow_ownership_transfer |-> allow_ownership_transfer],
              [destination_path |-> MoveDestination(path_from, path_to)],
              "move")

move_file_folder_move ==
    /\ tool = "move_file_folder" /\ pc = "move"
    /\ calls' = Append(calls, MoveCall(args.path_from, loc.destination_path,
                                       args.autorename,
                                       args.allow_ownership_transfer))
    /\ \E outcome \in RemoteOutcomes :
          CASE outcome = "ok" ->
                   Finish(Return("metadata", [path |-> loc.destination_path]))
            [] outcome = "ApiError" ->
                   Finish(Return("dict", [error |-> ApiErrorMsg]))
            [] OTHER -> Finish(Raise("Exception", OtherErrorMsg))
    /\ UNCHANGED <<tool, args, loc, io, remoteFile>>

NextMove == move_file_folder_call \/ move_file_folder_move

SpecMove == Init /\ [][NextMove]_vars

\* the first n atoms of p are p without its trailing slashes
StrippedAt(p, n) ==
    /\ n \in 0..Len(p)
    /\ n = 0 \/ p[n] # Slash
    /\ \A i \in (n + 1)..Len(p) : p[i] = Slash

\* q is p without its trailing slashes
IsStripped(p, q) == \E n \in 0..Len(p) : StrippedAt(p, n) /\ q = SubSeq(p, 1, n)

\* atoms k+1..m of p are the last segment of p, trailing slashes ignored
LeafAt(p, k, m) ==
    /\ k <= m
    /\ StrippedAt(p, m)
    /\ \A i \in (k + 1)..m : p[i] # Slash
    /\ k = 0 \/ p[k] = Slash

\* C10: move_file_folder issues exactly one move call, from path_from
\* unchanged to (path_to without trailing slashes) + "/" + (last segment of
\* path_from, its trailing slashes ignored); no call is issued before the
\* move step, and the part of the destination after its last slash is the
\* source's leaf name, so the call never renames.
C10_MoveIntoFolder ==
    tool = "move_file_folder" =>
        /\ pc = "move" => calls = <<>>
        /\ Done =>
             /\ Len(calls) = 1
             /\ calls[1].op = "files_move_v2"
             /\ calls[1].from_path = args.path_from
             /\ \E n \in 0..Len(args.path_to), k \in 0..Len(args.path_from),
                   m \in 0..Len(args.path_from) :
                    LET folder == SubSeq(args.path_to, 1, n)
                        leaf == SubSeq(args.path_from, k + 1, m)
                        to_path == calls[1].to_path
                    IN  /\ StrippedAt(args.path_to, n)
                        /\ LeafAt(args.path_from, k, m)
                        /\ to_path = folder \o <<Slash>> \o leaf
                        /\ SubSeq(to_path, n + 2, Len(to_path)) = leaf
                        /\ \A i \in (n + 2)..Len(to_path) : to_path[i] # Slash

\* "a/b" moved into "/a/" was sent to the remote API as a move to "/a/b"
C10_Witness ==
    /\ tool = "move_file_folder" /\ Done
    /\ args.path_from = <<"a", Slash, "b">>
    /\ args.path_to = <<Slash, "a", Slash>>
    /\ calls = <<MoveCall(<<"a", Slash, "b">>, <<Slash, "a", Slash, "b">>,
                          args.autorename, args.allow_ownership_transfer)>>
    /\ Returned /\ result.shape = "metadata"

(***************************************************************************)
(* rename_file_folder                                                      *)
(*                                                                         *)
(* Characters of new_name: "a" stands for an ASCII letter or digit,        *)
(* "E_ACUTE" for a non-ASCII letter, "LF" for a newline, "TAB" for a tab,  *)
(* "BACKSLASH" for a backslash and "BANG" for any other symbol.            *)
(***************************************************************************)
NameChars == {"a", "_", ".", "-", " ", Slash, "BACKSLASH", "E_ACUTE", "LF",
              "TAB", "BANG"}
NameArgs == SeqsUpTo(NameChars, MaxNameLen)

\* characters str.strip() removes
Whitespace == {" ", "LF", "TAB"}

\* new_name.strip() == ""
StripIsEmpty(s) == \A i \in 1..Len(s) : s[i] \in Whitespace

\* what \w matches in a Python 3 str pattern: Unicode letters, digits, "_"
WordChars == {"a", "_", "E_ACUTE"}

\* the character class [\w\-. ]
SafeClass == WordChars \cup {"-", ".", " "}

\* re.match(r"^[\w\-. ]+$", s): one or more class characters up to the end
\* of the string, where "$" also matches just before a final newline
ReMatchSafe(s) ==
    \E n \in 1..Len(s) :
        /\ \A i \in 1..n : s[i] \in SafeClass
        /\ \/ n = Len(s)
           \/ n = Len(s) - 1 /\ s[Len(s)] = "LF"

\* "/" in new_name or "\\" in new_name or new_name.strip() == ""
HasSeparatorOrEmpty(new_name) ==
    \/ \E i \in 1..Len(new_name) : new_name[i] \in {Slash, "BACKSLASH"}
    \/ StripIsEmpty(new_name)

\* the path rename_file_folder moves to
RenameDestination(path_from, new_name) ==
    LET parts == SplitSlash(RStripSlash(path_from))
        renamed == [parts EXCEPT ![Len(parts)] = new_name]
    IN  JoinSlash(renamed)

rename_file_folder_call ==
    /\ pc = "idle"
    /\ \E path_from \in PathArgs, new_name \in NameArgs,
       autorename \in BOOLEAN, allow_ownership_transfer \in BOOLEAN :
        Enter("rename_file_folder",
              [path_from |-> path_from, new_name |-> new_name,
               autorename |-> autorename,
               allow_ownership_transfer |-> allow_ownership_transfer],
              <<>>, "validate")

rename_file_folder_validate ==
    /\ tool = "rename_file_folder" /\ pc = "validate"
    /\ IF HasSeparatorOrEmpty(args.new_name)
       THEN /\ Finish(Return("dict", [error |-> "Invalid new_name: separator or empty"]))
            /\ loc' = loc
       ELSE IF ~ReMatchSafe(args.new_name)
       THEN /\ Finish(Return("dict", [error |-> "Invalid new_name: unsafe character"]))
            /\ loc' = loc
       ELSE /\ loc' = [path_to |-> RenameDestination(args.path_from, args.new_name)]
            /\ pc' = "move"
            /\ result' = result
    /\ UNCHANGED <<tool, args, calls, io, remoteFile>>

rename_file_folder_move ==
    /\ tool = "rename_file_folder" /\ pc = "move"
    /\ calls' = Append(calls, MoveCall(args.path_from, loc.path_to,
                                       args.autorename,
                                       args.allow_ownership_transfer))
    /\ \E outcome \in RemoteOutcomes :
          CASE outcome = "ok" ->
                   Finish(Return("dict", [status |-> "success",
                                          metadata |-> loc.path_to]))
            [] outcome = "ApiError" ->
                   Finish(Return("dict", [status |-> "error",
                                          message |-> ApiErrorMsg]))
            [] OTHER ->
                   Finish(Return("dict", [status |-> "error",
                                          message |-> OtherErrorMsg]))
    /\ UNCHANGED <<tool, args, loc, io, remoteFile>>

NextRename ==
    \/ rename_file_folder_call
    \/ rename_file_folder_validate
    \/ rename_file_folder_move

SpecRename == Init /\ [][NextRename]_vars

(***************************************************************************)
(* get_account_type / create_or_update_share_link                          *)
(*                                                                         *)
(* An expires argument is None, the empty string, a malformed string or an *)
(* ISO 8601 timestamp for the instant t, written without a zone ("naive"), *)
(* with a trailing "Z" or with a numeric UTC offset.                       *)
(***************************************************************************)
Times == 0..MaxTime
TimestampForms == {"naive", "Z", "offset"}
ExpiresArgs ==
    {[form |-> f, t |-> 0] : f \in {"None", "empty", "malformed"}}
        \cup {[form |-> f, t |-> t] : f \in TimestampForms, t \in Times}
PasswordArgs == {None, "", "pw"}
AccountTypes == {"basic", "pro", "business"}

\* Python truthiness of an optional string
Truthy(x) == x # None /\ x # ""
ExpiresTruthy(e) == e.form \notin {"None", "empty"}

\* expires.replace("Z", "+00:00")
ReplaceZ(e) == IF e.form = "Z" THEN [e EXCEPT !.form = "offset"] ELSE e

\* datetime.fromisoformat: a naive datetime for a zone-less string, an aware
\* one for a string with an offset, ValueError otherwise
FromIsoFormat(e) ==
    CASE e.form = "naive" -> [ok |-> TRUE, aware |-> FALSE, t |-> e.t]
      [] e.form = "offset" -> [ok |-> TRUE, aware |-> TRUE, t |-> e.t]
      [] OTHER -> [ok |-> FALSE, aware |-> FALSE, t |-> 0]

NoExpiry == [ok |-> TRUE, aware |-> FALSE, t |-> -1]

\* the validation with the comparison against utcnow() left out
ShareValidationNoPastCheck(a, account_type, utcnow) ==
    IF a.require_password /\ ~Truthy(a.link_password)
    THEN Raise("ValueError", "link_password must be provided")
    ELSE IF account_type = "basic" /\ a.require_password
    THEN Raise("ValueError", "password not supported for Basic")
    ELSE IF account_type = "basic" /\ ExpiresTruthy(a.expires)
    THEN Raise("ValueError", "expiration not supported for Basic")
    ELSE IF ExpiresTruthy(a.expires)
    THEN LET expire_dt == FromIsoFormat(ReplaceZ(a.expires))
         IN  IF ~expire_dt.ok
             THEN Raise("ValueError", "Invalid isoformat string")
             ELSE [kind |-> "ok", expire_dt |-> expire_dt]
    ELSE [kind |-> "ok", expire_dt |-> NoExpiry]

\* lines 170-189 of create_or_update_share_link: the exception the
\* validation raises, or the parsed expiry when it passes.  utcnow is the
\* value datetime.utcnow() returns, a naive datetime: comparing an aware
\* datetime with it raises TypeError.
ShareValidation(a, account_type, utcnow) ==
    IF a.require_password /\ ~Truthy(a.link_password)
    THEN Raise("ValueError", "link_password must be provided")
    ELSE IF account_type = "basic" /\ a.require_password
    THEN Raise("ValueError", "password not supported for Basic")
    ELSE IF account_type = "basic" /\ ExpiresTruthy(a.expires)
    THEN Raise("ValueError", "expiration not supported for Basic")
    ELSE IF ExpiresTruthy(a.expires)
    THEN LET expire_dt == FromIsoFormat(ReplaceZ(a.expires))
         IN  IF ~expire_dt.ok
             THEN Raise("ValueError", "Invalid isoformat string")
             ELSE IF expire_dt.aware
             THEN Raise("TypeError", "can't compare offset-naive and offset-aware datetimes")
             ELSE IF expire_dt.t < utcnow
             THEN Raise("ValueError", "Expiration date must be in the future.")
             ELSE [kind |-> "ok", expire_dt |-> expire_dt]
    ELSE [kind |-> "ok", expire_dt |-> NoExpiry]

\* SharedLinkSettings(...)
ShareSettings(a, expire_dt) ==
    [requested_visibility |-> "public",
     allow_download |-> a.allow_download,
     expires |-> expire_dt,
     link_password |-> IF a.require_password THEN a.link_password ELSE None]

AccountCall == [op |-> "users_get_current_account"]
ShareCall(path, settings) ==
    [op |-> "sharing_create_shared_link_with_settings", path |-> path,
     settings |-> settings]

create_or_update_share_link_call ==
    /\ pc = "idle"
    /\ \E require_password \in BOOLEAN, link_password \in PasswordArgs,
          expires \in ExpiresArgs, allow_download \in BOOLEAN,
          utcnow \in Times :
            Enter("create_or_update_share_link",
                  [path |-> "/f", require_password |-> require_password,
                   link_password |-> link_password, expires |-> expires,
                   access |-> None, allow_download |-> allow_download],
                  [utcnow |-> utcnow, account_type |-> None,
                   settings |-> None],
                  "account")

\* account_type = get_account_type()
get_account_type ==
    /\ tool = "create_or_update_share_link" /\ pc = "account"
    /\ calls' = Append(calls, AccountCall)
    /\ \E outcome \in RemoteOutcomes :
          CASE outcome = "ok" ->
                   \E tag \in AccountTypes :
                       /\ loc' = [loc EXCEPT !.account_type = tag]
                       /\ pc' = "validate"
                       /\ result' = result
            [] outcome = "ApiError" ->
                   Finish(Raise("ApiError", ApiErrorMsg)) /\ loc' = loc
            [] OTHER ->
                   Finish(Raise("Exception", OtherErrorMsg)) /\ loc' = loc
    /\ UNCHANGED <<tool, args, io, remoteFile>>

create_or_update_share_link_validate ==
    /\ tool = "create_or_update_share_link" /\ pc = "validate"
    /\ LET v == ShareValidation(args, loc.account_type, loc.utcnow)
       IN  IF v.kind = "raise"
           THEN Finish(v) /\ loc' = loc
           ELSE /\ loc' = [loc EXCEPT !.settings = ShareSettings(args, v.expire_dt)]
                /\ pc' = "create"
                /\ result' = result
    /\ UNCHANGED <<tool, args, calls, io, remoteFile>>

create_or_update_share_link_create ==
    /\ tool = "create_or_update_share_link" /\ pc = "create"
    /\ calls' = Append(calls, ShareCall(args.path, loc.settings))
    /\ \E outcome \in RemoteOutcomes :
          CASE outcome = "ok" ->
                   Finish(Return("dict", [status |-> "success", path |-> "url"]))
            [] outcome = "ApiError" ->
                   Finish(Return("dict", [error |-> ApiErrorMsg]))
            [] OTHER -> Finish(Raise("Exception", OtherErrorMsg))
    /\ UNCHANGED <<tool, args, loc, io, remoteFile>>

NextShare ==
    \/ create_or_update_share_link_call
    \/ get_account_type
    \/ create_or_update_share_link_validate
    \/ create_or_update_share_link_create

SpecShare == Init /\ [][NextShare]_vars

\* the shared-link creation calls issued so far
ShareCalls ==
    {i \in 1..Len(calls) : calls[i].op = "sharing_create_shared_link_with_settings"}

IsTimestamp(e) == e.form \in TimestampForms

\* require_password is true and link_password is absent
PasswordMissing == args.require_password /\ ~Truthy(args.link_password)

\* expires is a timestamp earlier than the current time
ExpiresInPast == IsTimestamp(args.expires) /\ args.expires.t < loc.utcnow

\* C2 as stated: an invocation rejected for a missing password or a past
\* expiry has issued no remote call of any kind when it is rejected.
C2_NoRemoteCallBeforeRejection ==
    (tool = "create_or_update_share_link" /\ Done
        /\ (PasswordMissing \/ ExpiresInPast)) =>
        /\ Raised
        /\ calls = <<>>

\* C2 as amended: with a missing password or a past expiry the shared-link
\* creation call is never issued and the invocation ends by raising; the
\* account-info query is issued before the validation is decided, so at
\* the moment of rejection exactly one remote call, that query, was made.
C2_OnlyAccountQueryBeforeRejection ==
    (tool = "create_or_update_share_link"
        /\ (PasswordMissing \/ ExpiresInPast)) =>
        /\ ShareCalls = {}
        /\ pc # "create"
        /\ Done => Raised /\ calls = <<AccountCall>>

\* a past expiry on a non-basic account was rejected with the validation
\* error after the account type had been fetched
C2_Witness ==
    /\ tool = "create_or_update_share_link" /\ Done
    /\ ExpiresInPast /\ ~PasswordMissing
    /\ loc.account_type = "pro"
    /\ result = Raise("ValueError", "Expiration date must be in the future.")
    /\ calls = <<AccountCall>>

\* C3: the shared-link creation call is never issued for a basic account
\* with require_password or with expires set, for a missing password or for
\* a past expiry; and for a non-basic account with a valid future expires
\* (and no missing password) the finished invocation has issued it exactly
\* once, with the supplied timestamp as the settings' expiry.
C3_CreateOnlyWhenValid ==
    tool = "create_or_update_share_link" =>
        /\ ( \/ loc.account_type = "basic" /\ args.require_password
             \/ loc.account_type = "basic" /\ ExpiresTruthy(args.expires)
             \/ PasswordMissing
             \/ ExpiresInPast ) => ShareCalls = {}
        /\ ( /\ Done
             /\ loc.account_type \in AccountTypes \ {"basic"}
             /\ IsTimestamp(args.expires) /\ args.expires.t > loc.utcnow
             /\ ~PasswordMissing ) =>
                /\ Cardinality(ShareCalls) = 1
                /\ \A i \in ShareCalls :
                       /\ calls[i].settings.expires.ok
                       /\ calls[i].settings.expires.t = args.expires.t

(***************************************************************************)
(* upload_file_to_dropbox                                                  *)
(*                                                                         *)
(* mute, strict_conflict and client_modified are handed to the upload call *)
(* untouched and stay at their defaults here.                              *)
(***************************************************************************)
WriteModeTags == {"add", "overwrite", "update"}
ModeArgs == {None, "", "add", "overwrite", "update", "replace"}
NoMode == "default"     \* no mode handed to files_upload: the provider default
InvalidTagMsg == "Invalid tag"
FolderArgs == {<<>>, <<Slash>>, <<Slash, "a">>, <<Slash, "a", Slash, Slash>>}
FileNames == {<<"f">>, <<"g">>}

\* dropbox.files.WriteMode(tag): the write mode with that tag; the
\* constructor raises for a tag that is no write mode
WriteMode(tag) ==
    IF tag \in WriteModeTags
    THEN [ok |-> TRUE, mode |-> tag]
    ELSE [ok |-> FALSE, mode |-> NoMode]

\* f"{dropbox_folder_path.rstrip('/')}/{file_name}"
DropboxPath(dropbox_folder_path, file_name) ==
    RStripSlash(dropbox_folder_path) \o <<Slash>> \o file_name

UploadCall(content, path, mode, autorename, mute) ==
    [op |-> "files_upload", content |-> content, path |-> path,
     mode |-> mode, autorename |-> autorename, mute |-> mute]

HttpGet(url) == [op |-> "requests.get", target |-> url]
OpenFile(path) == [op |-> "open", target |-> path]

\* how a URL fetch or a local file read can end
SourceOutcomes == {"ok", "Exception"}

\* {"mode": WriteMode(mode)} if mode in mode_tag else {}
SingleUploadMode(mode) ==
    IF mode \in WriteModeTags THEN WriteMode(mode) ELSE [ok |-> TRUE, mode |-> NoMode]

upload_file_to_dropbox_call ==
    /\ pc = "idle"
    /\ \E file_url \in {None, "", "u1"}, file_path \in {None, "", "p1"},
          dropbox_folder_path \in FolderArgs, file_name \in FileNames,
          autorename \in BOOLEAN, mode \in ModeArgs :
            Enter("upload_file_to_dropbox",
                  [file_url |-> file_url, file_path |-> file_path,
                   dropbox_folder_path |-> dropbox_folder_path,
                   file_name |-> file_name, autorename |-> autorename,
                   mute |-> FALSE, strict_conflict |-> FALSE, mode |-> mode,
                   client_modified |-> None],
                  [contents |-> None], "check")

\* lines 498-499
upload_file_to_dropbox_check ==
    /\ tool = "upload_file_to_dropbox" /\ pc = "check"
    /\ IF ~Truthy(args.file_url) /\ ~Truthy(args.file_path)
       THEN Finish(Raise("ValueError", "Must specify either file_url or file_path."))
       ELSE pc' = "source" /\ result' = result
    /\ UNCHANGED <<tool, args, loc, calls, io, remoteFile>>

\* lines 503-509: the URL wins when both sources are given
upload_file_to_dropbox_source ==
    /\ tool = "upload_file_to_dropbox" /\ pc = "source"
    /\ io' = Append(io, IF Truthy(args.file_url)
                        THEN HttpGet(args.file_url)
                        ELSE OpenFile(args.file_path))
    /\ \E outcome \in SourceOutcomes :
          IF outcome = "ok"
          THEN /\ loc' = [loc EXCEPT !.contents =
                              IF Truthy(args.file_url)
                              THEN args.file_url ELSE args.file_path]
               /\ pc' = "upload"
               /\ result' = result
          ELSE /\ Finish(Return("dict", [error |-> OtherErrorMsg]))
               /\ loc' = loc
    /\ UNCHANGED <<tool, args, calls, remoteFile>>

\* lines 512-539
upload_file_to_dropbox_upload ==
    /\ tool = "upload_file_to_dropbox" /\ pc = "upload"
    /\ LET dropbox_path == DropboxPath(args.dropbox_folder_path, args.file_name)
           upload_mode == SingleUploadMode(args.mode)
       IN  IF ~upload_mode.ok
           THEN /\ Finish(Return("dict", [error |-> InvalidTagMsg]))
                /\ calls' = calls
           ELSE /\ calls' = Append(calls, UploadCall(loc.contents, dropbox_path,
                                       upload_mode.mode, args.autorename, args.mute))
                /\ \E outcome \in RemoteOutcomes :
                      CASE outcome = "ok" ->
                               Finish(Return("metadata", [path |-> dropbox_path]))
                        [] outcome = "ApiError" ->
                               Finish(Return("dict", [error |-> ApiErrorMsg]))
                        [] OTHER ->
                               Finish(Return("dict", [error |-> OtherErrorMsg]))
    /\ UNCHANGED <<tool, args, loc, io, remoteFile>>

NextUpload ==
    \/ upload_file_to_dropbox_call
    \/ upload_file_to_dropbox_check
    \/ upload_file_to_dropbox_source
    \/ upload_file_to_dropbox_upload

SpecUpload == Init /\ [][NextUpload]_vars

\* C8: upload_file_to_dropbox rejects an invocation that supplies neither
\* or both of file_url and file_path with the caller-input validation error
\* (ValueError), having fetched no URL, read no file and uploaded nothing.
C8_ExactlyOneSource ==
    (tool = "upload_file_to_dropbox"
        /\ (Truthy(args.file_url) <=> Truthy(args.file_path))) =>
        /\ io = <<>>
        /\ calls = <<>>
        /\ Done => Raised /\ result.exc = "ValueError"

(***************************************************************************)
(* upload_multiple_files_to_dropbox                                        *)
(***************************************************************************)
Urls == {"u1", "u2"}
LocalPaths == {"p1"}

\* an Optional[List[str]] argument: None, or a list
NoneList == [given |-> FALSE, items |-> <<>>]
ListArgs(S, n) == {NoneList} \cup {[given |-> TRUE, items |-> l] : l \in SeqsUpTo(S, n)}
UrlListArgs == ListArgs(Urls, MaxFiles)
PathListArgs == ListArgs(LocalPaths, MaxFiles)
FilenamesArgs == ListArgs(FileNames, MaxNames)

\* file_urls or [] / file_paths or []
OrEmpty(list) == IF list = NoneList THEN <<>> ELSE list.items

\* lines 571-580: the exception the validation raises, or "ok"
BatchValidation(a) ==
    LET file_urls == OrEmpty(a.file_urls)
        file_paths == OrEmpty(a.file_paths)
        total_files == Len(file_urls) + Len(file_paths)
    IN  IF file_urls = <<>> /\ file_paths = <<>>
        THEN Raise("ValueError", "Must specify either file_urls or file_paths.")
        ELSE IF a.filenames = NoneList
        THEN Raise("TypeError", "object of type 'NoneType' has no len()")
        ELSE IF a.filenames.items = <<>> \/ Len(a.filenames.items) # total_files
        THEN Raise("ValueError", "Number of filenames must match total files")
        ELSE [kind |-> "ok"]

\* the batch naming every upload after the first filename
BatchPathFirstName(dropbox_folder_path, filenames, index) ==
    DropboxPath(dropbox_folder_path, filenames[1])

\* f"{dropbox_folder_path.rstrip('/')}/{filenames[index]}" (index from 0)
BatchPath(dropbox_folder_path, filenames, index) ==
    DropboxPath(dropbox_folder_path, filenames[index + 1])

\* dropbox.files.WriteMode(mode) if mode else None
BatchUploadMode(mode) ==
    IF Truthy(mode) THEN WriteMode(mode) ELSE [ok |-> TRUE, mode |-> NoMode]

upload_multiple_files_to_dropbox_call ==
    /\ pc = "idle"
    /\ \E file_urls \in UrlListArgs, file_paths \in PathListArgs,
          filenames \in FilenamesArgs, dropbox_folder_path \in FolderArgs,
          mode \in ModeArgs :
            Enter("upload_multiple_files_to_dropbox",
                  [file_urls |-> file_urls, file_paths |-> file_paths,
                   filenames |-> filenames,
                   dropbox_folder_path |-> dropbox_folder_path,
                   autorename |-> FALSE, mute |-> FALSE,
                   strict_conflict |-> FALSE, mode |-> mode],
                  [file_urls |-> OrEmpty(file_urls),
                   file_paths |-> OrEmpty(file_paths),
                   responses |-> <<>>, index |-> 0, content |-> None],
                  "check")

upload_multiple_files_to_dropbox_check ==
    /\ tool = "upload_multiple_files_to_dropbox" /\ pc = "check"
    /\ LET v == BatchValidation(args)
       IN  IF v.kind = "raise"
           THEN Finish(v)
           ELSE pc' = "source" /\ result' = result
    /\ UNCHANGED <<tool, args, loc, calls, io, remoteFile>>

\* lines 588-590 and 606-607: the next URL is fetched, or, the URLs being
\* exhausted, the next local file is read
upload_multiple_files_to_dropbox_source ==
    /\ tool = "upload_multiple_files_to_dropbox" /\ pc = "source"
    /\ LET i == loc.index + 1
           from_url == i <= Len(loc.file_urls)
           source == IF from_url THEN loc.file_urls[i]
                     ELSE loc.file_paths[i - Len(loc.file_urls)]
       IN  /\ io' = Append(io, IF from_url THEN HttpGet(source)
                                ELSE OpenFile(source))
           /\ \E outcome \in SourceOutcomes :
                 IF outcome = "ok"
                 THEN /\ loc' = [loc EXCEPT !.content = source]
                      /\ pc' = "upload"
                      /\ result' = result
                 ELSE /\ Finish(Return("list", <<[error |-> OtherErrorMsg]>>))
                      /\ loc' = loc
    /\ UNCHANGED <<tool, args, calls, remoteFile>>

\* lines 592-602 and 609-619, then the loop's next turn or lines 621-626
upload_multiple_files_to_dropbox_upload ==
    /\ tool = "upload_multiple_files_to_dropbox" /\ pc = "upload"
    /\ LET dropbox_path == BatchPath(args.dropbox_folder_path,
                                     args.filenames.items, loc.index)
           upload_mode == BatchUploadMode(args.mode)
           total_files == Len(loc.file_urls) + Len(loc.file_paths)
       IN  IF ~upload_mode.ok
           THEN /\ Finish(Return("list", <<[error |-> InvalidTagMsg]>>))
                /\ UNCHANGED <<calls, loc>>
           ELSE /\ calls' = Append(calls, UploadCall(loc.content, dropbox_path,
                                       upload_mode.mode, args.autorename, args.mute))
                /\ \E outcome \in RemoteOutcomes :
                      CASE outcome = "ok" ->
                               /\ loc' = [loc EXCEPT
                                      !.responses = Append(@, [path |-> dropbox_path]),
                                      !.index = @ + 1]
                               /\ IF loc.index + 1 = total_files
                                  THEN Finish(Return("list", loc'.responses))
                                  ELSE pc' = "source" /\ result' = result
                        [] outcome = "ApiError" ->
                               /\ Finish(Return("list", <<[error |-> ApiErrorMsg]>>))
                               /\ loc' = loc
                        [] OTHER ->
                               /\ Finish(Return("list", <<[error |-> OtherErrorMsg]>>))
                               /\ loc' = loc
    /\ UNCHANGED <<tool, args, io, remoteFile>>

NextBatch ==
    \/ upload_multiple_files_to_dropbox_call
    \/ upload_multiple_files_to_dropbox_check
    \/ upload_multiple_files_to_dropbox_source
    \/ upload_multiple_files_to_dropbox_upload

SpecBatch == Init /\ [][NextBatch]_vars

\* number of filenames given (none when omitted)
FilenamesCount == Len(args.filenames.items)
TotalFiles == Len(OrEmpty(args.file_urls)) + Len(OrEmpty(args.file_paths))

\* C5: when the number of filenames differs from the number of inputs
\* (filenames omitted or empty included) the batch upload ends with the
\* ValueError reporting the mismatch and has fetched, read and uploaded
\* nothing.
C5_MismatchRejectedBeforeAccess ==
    (tool = "upload_multiple_files_to_dropbox"
        /\ FilenamesCount # TotalFiles) =>
        /\ io = <<>>
        /\ calls = <<>>
        /\ Done => result = Raise("ValueError",
                                  "Number of filenames must match total files")

\* the inputs in processing order: all URLs, then all local paths
BatchInputs ==
    [i \in 1..TotalFiles |->
        IF i <= Len(OrEmpty(args.file_urls))
        THEN HttpGet(OrEmpty(args.file_urls)[i])
        ELSE OpenFile(OrEmpty(args.file_paths)[i - Len(OrEmpty(args.file_urls))])]

\* q is p without its trailing slashes, followed by "/" and name
IsUnder(p, name, q) ==
    \E n \in 0..Len(p) :
        IsStripped(p, SubSeq(p, 1, n)) /\ q = SubSeq(p, 1, n) \o <<Slash>> \o name

\* C6: the batch upload handles its inputs one at a time, all URLs then all
\* local paths, each fetched or read before it is uploaded to
\* <folder without trailing slashes>/<filenames[i]>; a batch without failure
\* returns one upload result per input in input order; after a first
\* failure at item k it returns a one-element error list, nothing after
\* item k was fetched, read or uploaded, and the uploads of the items
\* before k are issued and not undone.
C6_SequentialAbortOnFirstFailure ==
    (tool = "upload_multiple_files_to_dropbox" /\ pc # "check"
        /\ ~(Done /\ Raised)) =>
        /\ Len(io) <= TotalFiles
        /\ \A i \in 1..Len(io) : io[i] = BatchInputs[i]
        /\ Len(calls) <= Len(io) /\ Len(io) <= Len(calls) + 1
        /\ \A i \in 1..Len(calls) :
              /\ calls[i].op = "files_upload"
              /\ calls[i].content = io[i].target
              /\ IsUnder(args.dropbox_folder_path, args.filenames.items[i],
                         calls[i].path)
        /\ pc = "source" => Len(io) = Len(calls)
        /\ pc = "upload" => Len(io) = Len(calls) + 1
        /\ Done =>
              /\ Returned /\ result.shape = "list"
              /\ Len(io) >= 1
              /\ \/ /\ Len(result.value) = TotalFiles
                    /\ Len(calls) = TotalFiles /\ Len(io) = TotalFiles
                    /\ \A i \in 1..TotalFiles :
                          /\ DOMAIN result.value[i] = {"path"}
                          /\ result.value[i].path = calls[i].path
                 \/ /\ Len(result.value) = 1
                    /\ DOMAIN result.value[1] = {"error"}

\* items 1 and 2 of three were uploaded in order, the third (a local file)
\* failed, and the caller got a one-element error list
C6_Witness ==
    /\ tool = "upload_multiple_files_to_dropbox" /\ Done
    /\ args.file_urls.items = <<"u2", "u1">>
    /\ args.file_paths.items = <<"p1">>
    /\ args.filenames.items = <<<<"f">>, <<"g">>, <<"f">>>>
    /\ args.dropbox_folder_path = <<Slash, "a", Slash, Slash>>
    /\ io = <<HttpGet("u2"), HttpGet("u1"), OpenFile("p1")>>
    /\ Len(calls) = 2
    /\ calls[1].path = <<Slash, "a", Slash, "f">> /\ calls[1].content = "u2"
    /\ calls[2].path = <<Slash, "a", Slash, "g">> /\ calls[2].content = "u1"
    /\ result = Return("list", <<[error |-> OtherErrorMsg]>>)

\* C9: in both upload tools a mode that is unspecified or no write mode is
\* ignored: no upload call carries a write mode and the invocation does not
\* fail over the mode value; a mode among add, overwrite, update is the
\* write mode of every upload call.
C9_UnrecognizedModeIgnored ==
    tool \in {"upload_file_to_dropbox", "upload_multiple_files_to_dropbox"} =>
        /\ \A i \in 1..Len(calls) :
              calls[i].mode = IF args.mode \in WriteModeTags
                              THEN args.mode ELSE NoMode
        /\ (Done /\ Returned /\ result.shape = "dict") =>
              result.value # [error |-> InvalidTagMsg]
        /\ (Done /\ Returned /\ result.shape = "list") =>
              result.value # <<[error |-> InvalidTagMsg]>>

(***************************************************************************)
(* create_text_file and create_folder                                      *)
(***************************************************************************)
create_text_file_call ==
    /\ pc = "idle"
    /\ \E file_name \in LeafArgs, content \in ContentArgs,
          folder_path \in ParentArgs :
            Enter("create_text_file",
                  [file_name |-> file_name, content |-> content,
                   folder_path |-> folder_path],
                  [full_path |-> FullPath(folder_path, EnsureTxt(file_name))],
                  "upload")

create_text_file_upload ==
    /\ tool = "create_text_file" /\ pc = "upload"
    /\ calls' = Append(calls, UploadCall(Utf8Encode(args.content), loc.full_path,
                                         "add", FALSE, TRUE))
    /\ \E outcome \in RemoteOutcomes :
          CASE outcome = "ok" ->
                   Finish(Return("dict", [status |-> "success",
                                          path |-> loc.full_path]))
            [] outcome = "ApiError" ->
                   Finish(Return("dict", [error |-> ApiErrorMsg]))
            [] OTHER -> Finish(Raise("Exception", OtherErrorMsg))
    /\ UNCHANGED <<tool, args, loc, io, remoteFile>>

create_folder_call ==
    /\ pc = "idle"
    /\ \E folder_name \in LeafArgs, parent_path \in ParentArgs,
          autorename \in BOOLEAN :
            Enter("create_folder",
                  [folder_name |-> folder_name, parent_path |-> parent_path,
                   autorename |-> autorename],
                  [full_path |-> FullPath(parent_path, folder_name)],
                  "create")

create_folder_create ==
    /\ tool = "create_folder" /\ pc = "create"
    /\ calls' = Append(calls, [op |-> "files_create_folder_v2",
                               path |-> loc.full_path,
                               autorename |-> args.autorename])
    /\ \E outcome \in RemoteOutcomes :
          CASE outcome = "ok" ->
                   Finish(Return("dict", [status |-> "success",
                                          path |-> loc.full_path]))
            [] outcome = "ApiError" ->
                   Finish(Return("dict", [error |-> ApiErrorMsg]))
            [] OTHER -> Finish(Raise("Exception", OtherErrorMsg))
    /\ UNCHANGED <<tool, args, loc, io, remoteFile>>

(***************************************************************************)
(* get_file_info / create_or_append_to_text_file                           *)
(*                                                                         *)
(* remoteFile is the file of the remote account at the tool's full_path.   *)
(* Another client of the account may have written it before the tool       *)
(* looks it up.                                                            *)
(***************************************************************************)
DownloadCall(path) == [op |-> "files_download", path |-> path]

\* the new content glued to the existing one without the newline
AppendedContentNoNewline(existing_content, new_content) ==
    existing_content \o new_content

\* f"{existing_content}\n{new_content}"
AppendedContent(existing_content, new_content) ==
    existing_content \o <<"LF">> \o new_content

create_or_append_to_text_file_call ==
    /\ pc = "idle"
    /\ \E file_name \in LeafArgs, content \in ContentArgs,
          folder_path \in ParentArgs :
            Enter("create_or_append_to_text_file",
                  [file_name |-> file_name, content |-> content,
                   folder_path |-> folder_path],
                  [full_path |-> FullPath(folder_path, EnsureTxt(file_name)),
                   existing |-> Absent, file_exists |-> FALSE,
                   final_content |-> <<>>],
                  "lookup")

\* the remote account already holds a file at full_path
remote_file_present ==
    /\ tool = "create_or_append_to_text_file" /\ pc = "lookup"
    /\ remoteFile = Absent
    /\ \E bytes \in RemoteContents : remoteFile' = File(bytes)
    /\ UNCHANGED <<tool, args, pc, loc, calls, io, result>>

\* file_exists, final_content = get_file_info(full_path, content), called
\* outside the tool's try block
get_file_info ==
    /\ tool = "create_or_append_to_text_file" /\ pc = "lookup"
    /\ calls' = Append(calls, DownloadCall(loc.full_path))
    /\ \E outcome \in RemoteOutcomes :
          CASE outcome = "ok" ->
                   IF remoteFile = Absent
                   THEN \* ApiError whose error is path / not_found
                        /\ loc' = [loc EXCEPT !.file_exists = FALSE,
                                              !.final_content = args.content]
                        /\ pc' = "upload"
                        /\ result' = result
                   ELSE LET existing_content == Utf8Decode(remoteFile.content)
                        IN  IF existing_content.ok
                            THEN /\ loc' = [loc EXCEPT
                                        !.existing = remoteFile,
                                        !.file_exists = TRUE,
                                        !.final_content =
                                            AppendedContent(existing_content.text,
                                                            args.content)]
                                 /\ pc' = "upload"
                                 /\ result' = result
                            ELSE /\ Finish(Raise("UnicodeDecodeError",
                                                 "invalid start byte"))
                                 /\ loc' = loc
            [] outcome = "ApiError" ->
                   \* any other ApiError is re-raised
                   Finish(Raise("ApiError", ApiErrorMsg)) /\ loc' = loc
            [] OTHER ->
                   Finish(Raise("Exception", OtherErrorMsg)) /\ loc' = loc
    /\ UNCHANGED <<tool, args, io, remoteFile>>

create_or_append_to_text_file_upload ==
    /\ tool = "create_or_append_to_text_file" /\ pc = "upload"
    /\ LET content == Utf8Encode(loc.final_content)
       IN  /\ calls' = Append(calls, UploadCall(content, loc.full_path,
                                   "overwrite", ~loc.file_exists, TRUE))
           /\ \E outcome \in RemoteOutcomes :
                 CASE outcome = "ok" ->
                          /\ remoteFile' = File(content)
                          /\ Finish(Return("dict", [status |-> "success",
                                                    path |-> loc.full_path]))
                   [] outcome = "ApiError" ->
                          /\ remoteFile' = remoteFile
                          /\ Finish(Return("dict", [error |-> ApiErrorMsg]))
                   [] OTHER ->
                          /\ remoteFile' = remoteFile
                          /\ Finish(Raise("Exception", OtherErrorMsg))
    /\ UNCHANGED <<tool, args, loc, io>>

NextAppend ==
    \/ create_or_append_to_text_file_call
    \/ remote_file_present
    \/ get_file_info
    \/ create_or_append_to_text_file_upload

SpecAppend == Init /\ [][NextAppend]_vars

\* the upload calls issued so far
UploadCalls == {i \in 1..Len(calls) : calls[i].op = "files_upload"}

\* C7: with no other writer between lookup and upload, once the lookup has
\* answered (path not found, or a text file with content C0) the tool
\* issues exactly one upload, to the looked-up path and in overwrite mode:
\* of the given content with autorename enabled when nothing was found, of
\* C0 + "\n" + content with autorename disabled when the file existed; a
\* successful upload leaves exactly that content in the file.
C7_CreateOrAppendContent ==
    tool = "create_or_append_to_text_file" =>
        /\ pc = "lookup" => UploadCalls = {}
        /\ pc = "upload" =>
              /\ UploadCalls = {}
              /\ loc.existing = remoteFile
        /\ (Done /\ Len(calls) = 2) =>
              LET c == calls[2]
              IN  /\ calls[1] = DownloadCall(c.path)
                  /\ c.op = "files_upload"
                  /\ c.path = loc.full_path
                  /\ c.mode = "overwrite"
                  /\ IF loc.existing = Absent
                     THEN /\ c.content = Utf8Encode(args.content)
                          /\ c.autorename = TRUE
                     ELSE /\ c.content = loc.existing.content \o <<"0A">>
                                              \o Utf8Encode(args.content)
                          /\ c.autorename = FALSE
                  /\ (Returned /\ "status" \in DOMAIN result.value) =>
                        remoteFile = File(c.content)
        /\ Done => Len(calls) \in {1, 2}
        /\ (Done /\ Len(calls) = 1) => (Raised /\ calls[1].op = "files_download")

\* an existing file "a" got "\n" + "E_ACUTE" appended by one overwriting upload
C7_Witness ==
    /\ tool = "create_or_append_to_text_file" /\ Done
    /\ loc.existing = File(<<"61">>)
    /\ args.content = <<"E_ACUTE">>
    /\ Len(calls) = 2
    /\ calls[2].content = <<"61", "0A", "C3", "A9">>
    /\ calls[2].mode = "overwrite" /\ calls[2].autorename = FALSE
    /\ remoteFile = File(<<"61", "0A", "C3", "A9">>)
    /\ Returned

(***************************************************************************)
(* The tools that make one remote call and shape its answer.  Their path,  *)
(* query and revision arguments reach the remote call untouched.           *)
(***************************************************************************)
RemotePaths == {"/f", "/d"}
RevArgs == {None, "", "r1"}
EntryKinds == {"folder", "file"}

delete_file_or_folder_call ==
    /\ pc = "idle"
    /\ \E path \in RemotePaths :
          Enter("delete_file_or_folder", [path |-> path], <<>>, "delete")

delete_file_or_folder_delete ==
    /\ tool = "delete_file_or_folder" /\ pc = "delete"
    /\ calls' = Append(calls, [op |-> "files_delete_v2", path |-> args.path])
    /\ \E outcome \in RemoteOutcomes :
          CASE outcome = "ok" ->
                   Finish(Return("dict", [status |-> "success", path |-> args.path]))
            [] outcome = "ApiError" ->
                   Finish(Return("dict", [error |-> ApiErrorMsg]))
            [] OTHER -> Finish(Raise("Exception", OtherErrorMsg))
    /\ UNCHANGED <<tool, args, loc, io, remoteFile>>

download_file_to_tmp_call ==
    /\ pc = "idle"
    /\ \E path \in RemotePaths, name \in {None, "", "n"} :
          Enter("download_file_to_tmp", [path |-> path, name |-> name],
                [tmp_path |-> None], "download")

\* lines 233-236
download_file_to_tmp_download ==
    /\ tool = "download_file_to_tmp" /\ pc = "download"
    /\ calls' = Append(calls, DownloadCall(args.path))
    /\ \E outcome \in RemoteOutcomes :
          CASE outcome = "ok" ->
                   /\ loc' = [loc EXCEPT !.tmp_path =
                                 IF Truthy(args.name)
                                 THEN <<"/tmp", args.name>>
                                 ELSE <<"/tmp", "tmp_", args.path>>]
                   /\ pc' = "write"
                   /\ result' = result
            [] outcome = "ApiError" ->
                   Finish(Return("dict", [error |-> ApiErrorMsg])) /\ loc' = loc
            [] OTHER ->
                   Finish(Return("dict", [error |-> OtherErrorMsg])) /\ loc' = loc
    /\ UNCHANGED <<tool, args, io, remoteFile>>

\* lines 238-247
download_file_to_tmp_write ==
    /\ tool = "download_file_to_tmp" /\ pc = "write"
    /\ io' = Append(io, OpenFile(loc.tmp_path))
    /\ \E outcome \in SourceOutcomes :
          IF outcome = "ok"
          THEN Finish(Return("dict", [tmp_path |-> loc.tmp_path,
                                      metadata |-> args.path]))
          ELSE Finish(Return("dict", [error |-> OtherErrorMsg]))
    /\ UNCHANGED <<tool, args, loc, calls, remoteFile>>

list_files_and_folders_call ==
    /\ pc = "idle"
    /\ \E path \in RemotePaths, recursive \in BOOLEAN :
          Enter("list_files_and_folders",
                [path |-> path, recursive |-> recursive, limit |-> None],
                <<>>, "list")

list_files_and_folders_list ==
    /\ tool = "list_files_and_folders" /\ pc = "list"
    /\ calls' = Append(calls, [op |-> "files_list_folder", path |-> args.path,
                               recursive |-> args.recursive,
                               limit |-> args.limit])
    /\ \E outcome \in RemoteOutcomes :
          CASE outcome = "ok" ->
                   \E has_more \in BOOLEAN :
                       Finish(Return("dict", [entries |-> "entries",
                                              has_more |-> has_more]))
            [] outcome = "ApiError" ->
                   Finish(Return("dict", [error |-> ApiErrorMsg]))
            [] OTHER -> Finish(Return("dict", [error |-> OtherErrorMsg]))
    /\ UNCHANGED <<tool, args, loc, io, remoteFile>>

list_file_revisions_call ==
    /\ pc = "idle"
    /\ \E path \in RemotePaths, mode \in {None, "path", "id"} :
          Enter("list_file_revisions",
                [path |-> path, mode |-> mode, limit |-> None],
                <<>>, "list")

list_file_revisions_list ==
    /\ tool = "list_file_revisions" /\ pc = "list"
    /\ calls' = Append(calls, [op |-> "files_list_revisions",
                               path |-> args.path, mode |-> args.mode,
                               limit |-> args.limit])
    /\ \E outcome \in RemoteOutcomes :
          CASE outcome = "ok" -> Finish(Return("list", <<"entries">>))
            [] outcome = "ApiError" ->
                   Finish(Return("dict", [error |-> ApiErrorMsg]))
            [] OTHER -> Finish(Raise("Exception", OtherErrorMsg))
    /\ UNCHANGED <<tool, args, loc, io, remoteFile>>

restore_file_call ==
    /\ pc = "idle"
    /\ \E path \in RemotePaths, rev \in RevArgs :
          Enter("restore_file", [path |-> path, rev |-> rev], <<>>, "restore")

restore_file_restore ==
    /\ tool = "restore_file" /\ pc = "restore"
    /\ IF ~Truthy(args.rev)
       THEN /\ Finish(Return("dict", [error |-> "Missing revision ID to restore."]))
            /\ calls' = calls
       ELSE /\ calls' = Append(calls, [op |-> "files_restore",
                                       path |-> args.path, rev |-> args.rev])
            /\ \E outcome \in RemoteOutcomes :
                  CASE outcome = "ok" ->
                           Finish(Return("metadata", [path |-> args.path]))
                    [] outcome = "ApiError" ->
                           Finish(Return("dict", [error |-> ApiErrorMsg]))
                    [] OTHER -> Finish(Raise("Exception", OtherErrorMsg))
    /\ UNCHANGED <<tool, args, loc, io, remoteFile>>

search_files_folders_call ==
    /\ pc = "idle"
    /\ \E query \in {"q"}, max_results \in {1, 10} :
          Enter("search_files_folders",
                [query |-> query, max_results |-> max_results], <<>>, "search")

\* lines 442-455: one formatted entry per match, typed folder or file
FormatMatches(matches) ==
    [i \in 1..Len(matches) |->
        [name |-> "name", path_display |-> "path",
         type |-> IF matches[i] = "folder" THEN "folder" ELSE "file"]]

search_files_folders_search ==
    /\ tool = "search_files_folders" /\ pc = "search"
    /\ calls' = Append(calls, [op |-> "files_search_v2", query |-> args.query,
                               max_results |-> args.max_results])
    /\ \E outcome \in RemoteOutcomes :
          CASE outcome = "ok" ->
                   \E matches \in SeqsUpTo(EntryKinds, MaxMatches) :
                       LET formatted_results == FormatMatches(matches)
                       IN  Finish(Return("dict",
                               [matches |-> formatted_results,
                                total_matches |-> Len(formatted_results),
                                query |-> args.query]))
            [] outcome = "ApiError" ->
                   Finish(Return("dict", [matches |-> <<>>, total_matches |-> 0,
                                          query |-> args.query,
                                          error |-> ApiErrorMsg]))
            [] OTHER -> Finish(Raise("Exception", OtherErrorMsg))
    /\ UNCHANGED <<tool, args, loc, io, remoteFile>>

(***************************************************************************)
(* The tool set: any one tool is invoked and runs to its end.              *)
(***************************************************************************)
Next ==
    \/ create_text_file_call
    \/ create_text_file_upload
    \/ create_folder_call
    \/ create_folder_create
    \/ create_or_append_to_text_file_call
    \/ remote_file_present
    \/ get_file_info
    \/ create_or_append_to_text_file_upload
    \/ create_or_update_share_link_call
    \/ get_account_type
    \/ create_or_update_share_link_validate
    \/ create_or_update_share_link_create
    \/ delete_file_or_folder_call
    \/ delete_file_or_folder_delete
    \/ download_file_to_tmp_call
    \/ download_file_to_tmp_download
    \/ download_file_to_tmp_write
    \/ list_files_and_folders_call
    \/ list_files_and_folders_list
    \/ list_file_revisions_call
    \/ list_file_revisions_list
    \/ move_file_folder_call
    \/ move_file_folder_move
    \/ rename_file_folder_call
    \/ rename_file_folder_validate
    \/ rename_file_folder_move
    \/ restore_file_call
    \/ restore_file_restore
    \/ search_files_folders_call
    \/ search_files_folders_search
    \/ upload_file_to_dropbox_call
    \/ upload_file_to_dropbox_check
    \/ upload_file_to_dropbox_source
    \/ upload_file_to_dropbox_upload
    \/ upload_multiple_files_to_dropbox_call
    \/ upload_multiple_files_to_dropbox_check
    \/ upload_multiple_files_to_dropbox_source
    \/ upload_multiple_files_to_dropbox_upload

Spec == Init /\ [][Next]_vars

\* both upload tools
NextUploads == NextUpload \/ NextBatch

SpecUploads == Init /\ [][NextUploads]_vars

\* C1: whatever tool is invoked and whichever of its remote calls the
\* remote API fails, the failure never leaves the tool as a raised
\* ApiError: the invocation ends by returning a value.
C1_ApiErrorNeverEscapes ==
    Done => ~(Raised /\ result.exc = "ApiError")

\* the characters A-Z a-z 0-9 underscore dot hyphen space
AsciiSafeChars == {"a", "_", ".", "-", " "}

\* new_name contains "/", contains a backslash, is empty or whitespace-only,
\* or contains a character outside AsciiSafeChars
IsUnsafeName(new_name) ==
    \/ StripIsEmpty(new_name)
    \/ \E i \in 1..Len(new_name) : new_name[i] \notin AsciiSafeChars

\* C4: rename_file_folder answers every unsafe new_name with a validation
\* error result and issues no remote call for it; the move call is issued
\* only for names made solely of the characters A-Z a-z 0-9 _ . - space.
C4_RenameRejectsUnsafeNames ==
    (tool = "rename_file_folder" /\ IsUnsafeName(args.new_name)) =>
        /\ calls = <<>>
        /\ Done => /\ Returned /\ result.shape = "dict"
                   /\ "error" \in DOMAIN result.value

(***************************************************************************)
(* The tools that build their target path from a name and a folder.        *)
(***************************************************************************)
NextPaths ==
    \/ create_text_file_call
    \/ create_text_file_upload
    \/ create_folder_call
    \/ create_folder_create
    \/ NextAppend

SpecPaths == Init /\ [][NextPaths]_vars

PathTools == {"create_text_file", "create_folder",
              "create_or_append_to_text_file"}

\* the folder and the name (with its ".txt" where the tool enforces it)
\* the invocation was given
GivenFolder ==
    IF tool = "create_folder" THEN args.parent_path ELSE args.folder_path
GivenName ==
    IF tool = "create_folder" THEN args.folder_name
    ELSE EnsureTxt(args.file_name)

\* C11: every path create_text_file, create_folder and
\* create_or_append_to_text_file hand to a remote call begins with "/" and
\* is the folder (empty, with or without a leading or a trailing slash),
\* exactly one slash, and the name.
C11_WellFormedRemotePath ==
    tool \in PathTools =>
        \A i \in 1..Len(calls) :
            /\ calls[i].path[1] = Slash
            /\ \E n \in 0..Len(GivenFolder) :
                  /\ StrippedAt(GivenFolder, n)
                  /\ calls[i].path =
                         SubSeq(GivenFolder, 1, n) \o <<Slash>> \o GivenName

(***************************************************************************)
(* Two invocations of create_or_append_to_text_file running concurrently   *)
(* against the same remote path, which holds a file.  args, pc, loc and    *)
(* result are kept per invocation; the remote file and the log of remote   *)
(* calls are shared.  Each remote call is one step, so the lookups and the *)
(* uploads of the two invocations interleave in every order.               *)
(***************************************************************************)
Procs == {"first", "second"}

InitConcurrent ==
    /\ tool = "create_or_append_to_text_file"
    /\ args = [p \in Procs |-> <<>>]
    /\ pc = [p \in Procs |-> "idle"]
    /\ loc = [p \in Procs |-> <<>>]
    /\ calls = <<>>
    /\ io = <<>>
    /\ result = [p \in Procs |-> NoResult]
    /\ \E bytes \in RemoteContents : remoteFile = File(bytes)

\* lines 109-119 in invocation p; the other invocation, once entered, has
\* the same full_path
concurrent_append_call(p) ==
    /\ pc[p] = "idle"
    /\ \E file_name \in LeafArgs, content \in ContentArgs,
          folder_path \in ParentArgs :
          LET full_path == FullPath(folder_path, EnsureTxt(file_name))
          IN  /\ \A q \in Procs \ {p} :
                    pc[q] # "idle" => loc[q].full_path = full_path
              /\ args' = [args EXCEPT ![p] =
                             [file_name |-> file_name, content |-> content,
                              folder_path |-> folder_path]]
              /\ loc' = [loc EXCEPT ![p] =
                            [full_path |-> full_path, existing |-> Absent,
                             file_exists |-> FALSE, final_content |-> <<>>]]
              /\ pc' = [pc EXCEPT ![p] = "lookup"]
    /\ UNCHANGED <<tool, calls, io, result, remoteFile>>

\* lines 93-105 and 122 in invocation p
concurrent_get_file_info(p) ==
    /\ pc[p] = "lookup"
    /\ calls' = Append(calls, DownloadCall(loc[p].full_path))
    /\ \E outcome \in RemoteOutcomes :
          CASE outcome = "ok" ->
                   IF remoteFile = Absent
                   THEN /\ loc' = [loc EXCEPT ![p].file_exists = FALSE,
                                              ![p].final_content = args[p].content]
                        /\ pc' = [pc EXCEPT ![p] = "upload"]
                        /\ result' = result
                   ELSE LET existing_content == Utf8Decode(remoteFile.content)
                        IN  IF existing_content.ok
                            THEN /\ loc' = [loc EXCEPT
                                        ![p].existing = remoteFile,
                                        ![p].file_exists = TRUE,
                                        ![p].final_content =
                                            AppendedContent(existing_content.text,
                                                            args[p].content)]
                                 /\ pc' = [pc EXCEPT ![p] = "upload"]
                                 /\ result' = result
                            ELSE /\ pc' = [pc EXCEPT ![p] = "done"]
                                 /\ result' = [result EXCEPT ![p] =
                                        Raise("UnicodeDecodeError",
                                              "invalid start byte")]
                                 /\ loc' = loc
            [] outcome = "ApiError" ->
                   /\ pc' = [pc EXCEPT ![p] = "done"]
                   /\ result' = [result EXCEPT ![p] = Raise("ApiError", ApiErrorMsg)]
                   /\ loc' = loc
            [] OTHER ->
                   /\ pc' = [pc EXCEPT ![p] = "done"]
                   /\ result' = [result EXCEPT ![p] =
                                     Raise("Exception", OtherErrorMsg)]
                   /\ loc' = loc
    /\ UNCHANGED <<tool, args, io, remoteFile>>

\* lines 124-144 in invocation p: the upload overwrites whatever the remote
\* file holds by then
concurrent_append_upload(p) ==
    /\ pc[p] = "upload"
    /\ LET content == Utf8Encode(loc[p].final_content)
       IN  /\ calls' = Append(calls, UploadCall(content, loc[p].full_path,
                                   "overwrite", ~loc[p].file_exists, TRUE))
           /\ pc' = [pc EXCEPT ![p] = "done"]
           /\ \E outcome \in RemoteOutcomes :
                 CASE outcome = "ok" ->
                          /\ remoteFile' = File(content)
                          /\ result' = [result EXCEPT ![p] =
                                 Return("dict", [status |-> "success",
                                                 path |-> loc[p].full_path])]
                   [] outcome = "ApiError" ->
                          /\ remoteFile' = remoteFile
                          /\ result' = [result EXCEPT ![p] =
                                 Return("dict", [error |-> ApiErrorMsg])]
                   [] OTHER ->
                          /\ remoteFile' = remoteFile
                          /\ result' = [result EXCEPT ![p] =
                                 Raise("Exception", OtherErrorMsg)]
    /\ UNCHANGED <<tool, args, loc, io>>

concurrent_call == \E p \in Procs : concurrent_append_call(p)
concurrent_lookup == \E p \in Procs : concurrent_get_file_info(p)
concurrent_upload == \E p \in Procs : concurrent_append_upload(p)

NextConcurrent ==
    \/ concurrent_call
    \/ concurrent_lookup
    \/ concurrent_upload

SpecConcurrent == InitConcurrent /\ [][NextConcurrent]_vars

\* invocation p returned its success result
AppendSucceeded(p) ==
    /\ pc[p] = "done"
    /\ result[p].kind = "return"
    /\ "status" \in DOMAIN result[p].value

\* the bytes t occur in the bytes s
Contains(s, t) ==
    \E i \in 0..(Len(s) - Len(t)) : SubSeq(s, i + 1, i + Len(t)) = t

\* C12: when two concurrent create_or_append_to_text_file invocations on
\* the same existing path have both returned success, the file holds the
\* new content of both of them, however their lookups and uploads
\* interleaved.
C12_NoSuccessfulAppendLost ==
    (\A p \in Procs : AppendSucceeded(p)) =>
        \A p \in Procs :
            Contains(remoteFile.content, Utf8Encode(args[p].content))

====
